---- MODULE Spec2Model ----
(***************************************************************************)
(* Model of the static-analysis scripts of the repository:                 *)
(*   src/scripts/find_production_unwraps.py  (is_test_code, find_unwraps)  *)
(*   src/scripts/analyze_complexity.py       (scorer, scanner, report)     *)
(*   src/scripts/fix_transaction_indentation.py  (fix_transaction_file)    *)
(* Text is a sequence of one-character strings, so that substring search,  *)
(* str.count, str.strip and the regular expressions act on characters as   *)
(* they do in the scripts.                                                 *)
(***************************************************************************)
EXTENDS Integers, Sequences, FiniteSets, TLC

VARIABLES
    lines,       \* find_unwraps: the lines of the file read (f.readlines())
    line_num,    \* is_test_code: the 0-based line index of the call
    is_test,     \* is_test_code: the value returned
    unwraps,     \* find_unwraps: the list returned
    upc,         \* position of the risky-call script: "idle", "read", "classified", "found"
    function_body,  \* count_complexity_indicators: its argument
    complexity,     \* count_complexity_indicators: the value returned
    spc,            \* position of the scorer: "idle", "call", "scored"
    content,        \* analyze_rust_file: the text of the file read last
    scopes,         \* analyze_rust_file: (fn_name, fn_body) of each match of function_pattern
    functions,      \* analyze_rust_file: the list returned
    nfiles,         \* number of files the walk has analysed
    high_complexity_functions,  \* the module-level list of (fn_name, complexity, filepath)
    file_complexities,          \* the per-file list of (filepath, total, count)
    cpc,            \* position of the complexity script: "idle", "walk", "reported", "aborted"
    scanned,             \* main: number of files of files_to_check that were scanned
    production_unwraps,  \* main: the dict, as (filepath, unwraps) in the order of insertion
    listing,             \* main: what was printed per file, (filepath, count, snippets)
    total,               \* main: the count printed as 'Total production unwraps'
    mpc,                 \* position of main: "idle", "scan", "printed"
    tx_file,        \* the lines of src/runtime/transaction.rs on disk
    tx_lines,       \* fix_transaction_file: the lines read by the last run
    fixed_lines,    \* fix_transaction_file: the lines written by the last run
    runs            \* number of runs of fix_transaction_file so far

uvars == <<lines, line_num, is_test, unwraps, upc>>
svars == <<function_body, complexity, spc>>
cvars == <<content, scopes, functions, nfiles, high_complexity_functions, file_complexities, cpc>>
mvars == <<scanned, production_unwraps, listing, total, mpc>>
fvars == <<tx_file, tx_lines, fixed_lines, runs>>
vars == <<uvars, svars, cvars, mvars, fvars>>

\* ------------------------------------------------------------------ text

Min(a, b) == IF a < b THEN a ELSE b
Max(a, b) == IF a > b THEN a ELSE b
SetMin(S) == CHOOSE x \in S : \A y \in S : x <= y

RECURSIVE Flatten(_)
Flatten(ss) == IF ss = <<>> THEN <<>> ELSE Head(ss) \o Flatten(Tail(ss))

\* the sequences over S of length up to n
SeqsUpTo(S, n) == UNION {[1..k -> S] : k \in 0..n}

RECURSIVE Repeat(_, _)
Repeat(x, n) == IF n <= 0 THEN <<>> ELSE <<x>> \o Repeat(x, n - 1)

\* s[p..] begins with pre (p is 1-based)
MatchAt(pre, s, p) ==
    /\ p >= 1
    /\ p + Len(pre) - 1 <= Len(s)
    /\ \A k \in 1..Len(pre) : s[p + k - 1] = pre[k]

\* Python: s.startswith(pre)
StartsWith(s, pre) == MatchAt(pre, s, 1)

\* Python: sub in s
Contains(sub, s) == \E p \in 1..(Len(s) - Len(sub) + 1) : MatchAt(sub, s, p)

\* Python: s.count(c) for a one-character c
CountChar(c, s) == Cardinality({p \in 1..Len(s) : s[p] = c})

IsSpace(c) == c \in {" ", "\n", "\t", "\r"}

\* Python: s.strip()
Strip(s) ==
    LET ink == {p \in 1..Len(s) : ~IsSpace(s[p])}
    IN  IF ink = {} THEN <<>>
        ELSE LET a == SetMin(ink)
                 b == CHOOSE x \in ink : \A y \in ink : y <= x
             IN  SubSeq(s, a, b)

\* ------------------------------------------------------------------ find_production_unwraps.py

TEST_ATTR == <<"#","[","t","e","s","t","]">>
CFG_TEST  == <<"#","[","c","f","g","(","t","e","s","t",")","]">>
FN_TEST   == <<"f","n"," ","t","e","s","t","_">>
UNWRAP    == <<".","u","n","w","r","a","p","(",")">>
SLASHES2  == <<"/","/">>
SLASHES3  == <<"/","/","/">>

\* the backward window of is_test_code: range(max(0, line_num - 20), line_num)
WindowSize == 20

\* line 12: the three recognised test markers
HasMarker(line) ==
    \/ Contains(TEST_ATTR, line)
    \/ Contains(CFG_TEST, line)
    \/ Contains(FN_TEST, line)

\* line 16: lines[j].count('{') - lines[j].count('}')
BraceDelta(line) == CountChar("{", line) - CountChar("}", line)

\* faulty variant: at line_num any depth other than 0 counts as inside
RECURSIVE ScanBracesNonZero(_, _, _, _)
ScanBracesNonZero(ls, j, n, brace_count) ==
    IF j >= Min(n + 1, Len(ls))
    THEN brace_count # 0
    ELSE LET bc == brace_count + BraceDelta(ls[j + 1])
         IN  IF j < n /\ bc = 0
             THEN FALSE
             ELSE ScanBracesNonZero(ls, j + 1, n, bc)

\* lines 14-19: the inner loop, entered at j with the running brace_count
RECURSIVE ScanBraces(_, _, _, _)
ScanBraces(ls, j, n, brace_count) ==
    IF j >= Min(n + 1, Len(ls))
    THEN brace_count > 0
    ELSE LET bc == brace_count + BraceDelta(ls[j + 1])
         IN  IF j < n /\ bc = 0
             THEN FALSE
             ELSE ScanBraces(ls, j + 1, n, bc)

\* faulty variant: the window reaches one line further back
WindowMarkersWide(ls, n) ==
    {i \in Max(0, n - WindowSize - 1)..(n - 1) : HasMarker(ls[i + 1])}

\* faulty variant: the window stops one line short
WindowMarkersNarrow(ls, n) ==
    {i \in Max(0, n - WindowSize + 1)..(n - 1) : HasMarker(ls[i + 1])}

\* lines 11-12: the indices of the window that hold a marker
WindowMarkers(ls, n) ==
    {i \in Max(0, n - WindowSize)..(n - 1) : HasMarker(ls[i + 1])}

\* faulty variant: the last marker of the window decides
is_test_code_latest(ls, n) ==
    LET W == WindowMarkers(ls, n)
    IN  IF W = {} THEN FALSE
        ELSE ScanBraces(ls, CHOOSE i \in W : \A k \in W : k <= i, n, 0)

\* lines 8-20; indices are 0-based as in the script, ls[i + 1] is lines[i]
is_test_code(ls, n) ==
    LET W == WindowMarkers(ls, n)
    IN  IF W = {} THEN FALSE ELSE ScanBraces(ls, SetMin(W), n, 0)

\* lines 30-38: whether line i is appended to unwraps
Emits(ls, i) ==
    LET line == ls[i + 1]
        stripped == Strip(line)
    IN  /\ Contains(UNWRAP, line)
        /\ ~(StartsWith(stripped, SLASHES2) \/ StartsWith(stripped, SLASHES3))
        /\ ~is_test_code(ls, i)

\* faulty variant: the finding carries the 0-based index
RECURSIVE CollectUnwrapsZeroBased(_, _)
CollectUnwrapsZeroBased(ls, i) ==
    IF i >= Len(ls) THEN <<>>
    ELSE (IF Emits(ls, i) THEN <<<<i, Strip(ls[i + 1])>>>> ELSE <<>>)
         \o CollectUnwrapsZeroBased(ls, i + 1)

\* lines 29-38: the loop over enumerate(lines), from index i on
RECURSIVE CollectUnwraps(_, _)
CollectUnwraps(ls, i) ==
    IF i >= Len(ls) THEN <<>>
    ELSE (IF Emits(ls, i) THEN <<<<i + 1, Strip(ls[i + 1])>>>> ELSE <<>>)
         \o CollectUnwraps(ls, i + 1)

\* lines 22-42
find_unwraps(ls) == CollectUnwraps(ls, 0)

\* ------------------------------------------------------------------ analyze_complexity.py

\* regular expression \w
WordChars ==
    {"a","b","c","d","e","f","g","h","i","j","k","l","m","n","o","p","q","r","s","t","u","v","w","x","y","z",
     "A","B","C","D","E","F","G","H","I","J","K","L","M","N","O","P","Q","R","S","T","U","V","W","X","Y","Z",
     "0","1","2","3","4","5","6","7","8","9","_"}
IsWord(c) == c \in WordChars

\* regular expression \b at the gap before position p of s
Boundary(s, p) ==
    LET before == p - 1 >= 1 /\ p - 1 <= Len(s) /\ IsWord(s[p - 1])
        after  == p >= 1 /\ p <= Len(s) /\ IsWord(s[p])
    IN  before # after

\* lines 14-19: the fifteen patterns; word = TRUE for the \b...\b ones
PATTERNS ==
    << [text |-> <<"i","f">>,       word |-> TRUE],
       [text |-> <<"e","l","s","e">>,     word |-> TRUE],
       [text |-> <<"f","o","r">>,      word |-> TRUE],
       [text |-> <<"w","h","i","l","e">>,    word |-> TRUE],
       [text |-> <<"l","o","o","p">>,     word |-> TRUE],
       [text |-> <<"m","a","t","c","h">>,    word |-> TRUE],
       [text |-> <<"=",">">>,       word |-> FALSE],
       [text |-> <<"?">>,        word |-> FALSE],
       [text |-> <<".","u","n","w","r","a","p","(">>, word |-> FALSE],
       [text |-> <<".","e","x","p","e","c","t","(">>, word |-> FALSE],
       [text |-> <<"r","e","t","u","r","n">>,   word |-> TRUE],
       [text |-> <<"b","r","e","a","k">>,    word |-> TRUE],
       [text |-> <<"c","o","n","t","i","n","u","e">>, word |-> TRUE],
       [text |-> <<"&","&">>,       word |-> FALSE],
       [text |-> <<"|","|">>,       word |-> FALSE] >>

\* the pattern matches s at position p
PatternAt(pat, s, p) ==
    /\ MatchAt(pat.text, s, p)
    /\ pat.word => Boundary(s, p) /\ Boundary(s, p + Len(pat.text))

\* faulty variant: matches are counted at every position, overlapping ones too
RECURSIVE FindAllOverlapping(_, _, _)
FindAllOverlapping(pat, s, p) ==
    IF p > Len(s) THEN 0
    ELSE (IF PatternAt(pat, s, p) THEN 1 ELSE 0) + FindAllOverlapping(pat, s, p + 1)

\* line 22: len(re.findall(pattern, function_body)), scanning from position p;
\* after a match the scan resumes behind it
RECURSIVE FindAllCount(_, _, _)
FindAllCount(pat, s, p) ==
    IF p > Len(s) THEN 0
    ELSE IF PatternAt(pat, s, p)
         THEN 1 + FindAllCount(pat, s, p + Len(pat.text))
         ELSE FindAllCount(pat, s, p + 1)

\* lines 21-23: the loop over patterns, from pattern k on
RECURSIVE SumPatterns(_, _)
SumPatterns(s, k) ==
    IF k > Len(PATTERNS) THEN 0
    ELSE FindAllCount(PATTERNS[k], s, 1) + SumPatterns(s, k + 1)

\* lines 9-25
count_complexity_indicators(body) == 1 + SumPatterns(body, 1)

\* line 46: only report high complexity
Threshold == 10

TEST_PREFIX == <<"t","e","s","t","_">>
FN_KEYWORD  == <<"f","n">>

\* the first position >= p of s holding a brace, 0 when there is none
NextBrace(s, p) ==
    LET B == {q \in p..Len(s) : s[q] \in {"{", "}"}}
    IN  IF B = {} THEN 0 ELSE SetMin(B)

\* the first position >= p of s holding an opening brace, 0 when there is none
NextOpen(s, p) ==
    LET B == {q \in p..Len(s) : s[q] = "{"}
    IN  IF B = {} THEN 0 ELSE SetMin(B)

\* line 33, ((?:[^{}]|\{[^{}]*\})*)\} from position p: the position of the closing
\* brace, 0 when there is no match. The group consumes characters that are no
\* brace and {...} groups with no brace inside; the match ends at the first
\* closing brace outside such a group, and fails at a second level of nesting.
RECURSIVE BodyEnd(_, _)
BodyEnd(s, p) ==
    LET nb == NextBrace(s, p)
    IN  IF nb = 0 THEN 0
        ELSE IF s[nb] = "}" THEN nb
        ELSE LET nb2 == NextBrace(s, nb + 1)
             IN  IF nb2 = 0 \/ s[nb2] = "{" THEN 0 ELSE BodyEnd(s, nb2 + 1)

\* the end of the run of characters satisfying Ok that starts at p (p - 1 if empty)
RunEnd(s, p, Ok(_)) ==
    LET stop == {q \in p..Len(s) : ~Ok(s[q])}
    IN  IF stop = {} THEN Len(s) ELSE SetMin(stop) - 1

\* line 33, fn\s+(\w+)[^{]*\{(...)\} tried at position q: the optional groups
\* (pub\s+)? and (async\s+)? only move the start of the match and change neither
\* group 3, group 4 nor the end of the match
FnMatchAt(s, q) ==
    IF ~(MatchAt(FN_KEYWORD, s, q) /\ q + 2 <= Len(s) /\ IsSpace(s[q + 2]))
    THEN [ok |-> FALSE]
    ELSE LET n1 == RunEnd(s, q + 2, IsSpace) + 1      \* first character of \w+
             n2 == RunEnd(s, n1, IsWord)              \* last character of \w+
             ob == NextOpen(s, n2 + 1)                \* \{ after [^{]*
             cb == IF ob = 0 THEN 0 ELSE BodyEnd(s, ob + 1)
         IN  IF n2 < n1 \/ ob = 0 \/ cb = 0
             THEN [ok |-> FALSE]
             ELSE [ok |-> TRUE, name |-> SubSeq(s, n1, n2),
                   body |-> SubSeq(s, ob + 1, cb - 1), end |-> cb]

\* line 36: re.finditer(function_pattern, content) from position q, as the
\* sequence of (group 3, group 4); the scan resumes behind each match
RECURSIVE FindIter(_, _)
FindIter(s, q) ==
    IF q > Len(s) THEN <<>>
    ELSE LET m == FnMatchAt(s, q)
         IN  IF m.ok
             THEN <<[name |-> m.name, body |-> m.body]>> \o FindIter(s, m.end + 1)
             ELSE FindIter(s, q + 1)

\* faulty variant: the name of the function is not looked at
RECURSIVE ReportFromAll(_, _, _, _)
ReportFromAll(ms, k, filepath, limit) ==
    IF k > Len(ms) THEN <<>>
    ELSE LET c == count_complexity_indicators(ms[k].body)
         IN  (IF c > limit THEN <<<<ms[k].name, c, filepath>>>> ELSE <<>>)
             \o ReportFromAll(ms, k + 1, filepath, limit)

\* lines 36-47: the loop over the matches, from match k on
RECURSIVE ReportFrom(_, _, _, _)
ReportFrom(ms, k, filepath, limit) ==
    IF k > Len(ms) THEN <<>>
    ELSE LET c == count_complexity_indicators(ms[k].body)
         IN  (IF ~StartsWith(ms[k].name, TEST_PREFIX) /\ c > limit
              THEN <<<<ms[k].name, c, filepath>>>>
              ELSE <<>>) \o ReportFrom(ms, k + 1, filepath, limit)

\* faulty variant: the threshold itself is reported too
analyze_inclusive(text, filepath) == ReportFrom(FindIter(text, 1), 1, filepath, Threshold - 1)

\* lines 27-49
analyze_rust_file(text, filepath) == ReportFrom(FindIter(text, 1), 1, filepath, Threshold)

\* faulty variant: an element is put before the elements of equal key
RECURSIVE InsertBeforeEqual(_, _, _)
InsertBeforeEqual(x, sorted, k) ==
    IF sorted = <<>> THEN <<x>>
    ELSE IF Head(sorted)[k] > x[k]
         THEN <<Head(sorted)>> \o InsertBeforeEqual(x, Tail(sorted), k)
         ELSE <<x>> \o sorted

\* list.sort(key=lambda x: x[k], reverse=True) is stable: x goes behind every
\* element whose key is greater or equal
RECURSIVE InsertDesc(_, _, _)
InsertDesc(x, sorted, k) ==
    IF sorted = <<>> THEN <<x>>
    ELSE IF Head(sorted)[k] >= x[k]
         THEN <<Head(sorted)>> \o InsertDesc(x, Tail(sorted), k)
         ELSE <<x>> \o sorted

\* lines 66 and 85: the elements of seq, taken in order, sorted by item k, largest first
RECURSIVE SortDesc(_, _)
SortDesc(seq, k) ==
    IF seq = <<>> THEN <<>>
    ELSE InsertDesc(seq[Len(seq)], SortDesc(SubSeq(seq, 1, Len(seq) - 1), k), k)

\* lines 78-80: the keys of by_file, in the order of their insertion
RECURSIVE FileOrder(_)
FileOrder(fs) ==
    IF fs = <<>> THEN <<>>
    ELSE LET rest == FileOrder(SubSeq(fs, 1, Len(fs) - 1))
             f == fs[Len(fs)][3]
         IN  IF \E k \in 1..Len(rest) : rest[k] = f THEN rest ELSE rest \o <<f>>

\* faulty variant: only the first score of the file is counted
SumScoresFirst(fs) == IF fs = <<>> THEN 0 ELSE Head(fs)[2]

RECURSIVE SumScores(_)
SumScores(fs) == IF fs = <<>> THEN 0 ELSE Head(fs)[2] + SumScores(Tail(fs))

\* faulty variant: the files are ranked by their number of findings
FileComplexitiesByCount(fs) ==
    LET order == FileOrder(fs)
        Of(f) == SelectSeq(fs, LAMBDA x : x[3] = f)
    IN  SortDesc([k \in 1..Len(order) |->
                    <<order[k], SumScores(Of(order[k])), Len(Of(order[k]))>>], 3)

\* lines 83-85: (f, sum of complexities, number of functions) per file, sorted by total
FileComplexities(fs) ==
    LET order == FileOrder(fs)
        Of(f) == SelectSeq(fs, LAMBDA x : x[3] = f)
    IN  SortDesc([k \in 1..Len(order) |->
                    <<order[k], SumScores(Of(order[k])), Len(Of(order[k]))>>], 2)

\* ------------------------------------------------------------------ input files of the risky-call script

Filler       == <<" "," "," "," ","x",";","\n">>
LnTestAttr   == <<"#","[","t","e","s","t","]","\n">>
LnCfgTest    == <<"#","[","c","f","g","(","t","e","s","t",")","]","\n">>
LnFnTest     == <<"f","n"," ","t","e","s","t","_","a","(",")"," ","{","\n">>
LnFnPlain    == <<"f","n"," ","f","(",")"," ","{","\n">>
LnClose      == <<"}","\n">>
LnUnwrap     == <<" "," "," "," ","r",".","u","n","w","r","a","p","(",")",";","\n">>
LnUnwrapEnd  == <<" "," "," "," ","r",".","u","n","w","r","a","p","(",")"," ","}","\n">>
LnComment    == <<" "," "," "," ","/","/"," ","r",".","u","n","w","r","a","p","(",")","\n">>
LnTrailing   == <<" "," "," "," ","x",";"," ","/","/"," ","r",".","u","n","w","r","a","p","(",")","\n">>
LnClose2     == <<"}","}","\n">>
LnTwice      == <<" "," "," "," ","a",".","u","n","w","r","a","p","(",")",".","b",".","u","n","w","r","a","p","(",")",";","\n">>

\* lines that may stand before the run of filler lines, and after it
HeadLines == {LnTestAttr, LnCfgTest, LnFnTest, LnFnPlain, LnClose}
TailLines == {LnUnwrap, LnUnwrapEnd, LnComment, LnTrailing, LnClose, LnClose2, LnTestAttr}

Heads == {<<>>} \cup {<<a>> : a \in HeadLines} \cup {<<a, b>> : a \in HeadLines, b \in HeadLines}
Tails ==
    {<<>>} \cup {<<a>> : a \in TailLines} \cup {<<a, b>> : a \in TailLines, b \in TailLines}
        \cup {<<LnTwice>>, <<LnTwice, LnUnwrap>>, <<LnUnwrapEnd, LnTwice>>}

MaxSmallGap == 4   \* short runs of filler lines: 0..MaxSmallGap
MaxOver == 0       \* long runs of filler lines: WindowSize - 1 .. WindowSize + MaxOver

Gaps == (0..MaxSmallGap) \cup ((WindowSize - 1)..(WindowSize + MaxOver))

UnwrapFiles == {h \o Repeat(Filler, g) \o t : h \in Heads, g \in Gaps, t \in Tails}

\* ------------------------------------------------------------------ the risky-call script as a state machine

\* the scripts are separate programs: while one runs, the others are idle
UnwrapsIdle ==
    /\ lines = <<>>
    /\ line_num = 0
    /\ is_test = FALSE
    /\ unwraps = <<>>
    /\ upc = "idle"

ScorerIdle ==
    /\ function_body = <<>>
    /\ complexity = 0
    /\ spc = "idle"

ComplexityIdle ==
    /\ content = <<>>
    /\ scopes = <<>>
    /\ functions = <<>>
    /\ nfiles = 0
    /\ high_complexity_functions = <<>>
    /\ file_complexities = <<>>
    /\ cpc = "idle"

MainIdle ==
    /\ scanned = 0
    /\ production_unwraps = <<>>
    /\ listing = <<>>
    /\ total = 0
    /\ mpc = "idle"

FixIdle ==
    /\ tx_file = <<>>
    /\ tx_lines = <<>>
    /\ fixed_lines = <<>>
    /\ runs = 0

InitUnwraps ==
    /\ lines \in UnwrapFiles
    /\ line_num = 0
    /\ is_test = FALSE
    /\ unwraps = <<>>
    /\ upc = "read"
    /\ ScorerIdle
    /\ ComplexityIdle
    /\ MainIdle
    /\ FixIdle

\* a call is_test_code(lines, n) for a line of the file
Classify ==
    /\ upc = "read"
    /\ \E n \in 0..(Len(lines) - 1) :
        /\ line_num' = n
        /\ is_test' = is_test_code(lines, n)
    /\ upc' = "classified"
    /\ UNCHANGED <<lines, unwraps, svars, cvars, mvars, fvars>>

\* the call find_unwraps(filepath)
FindUnwraps ==
    /\ upc = "read"
    /\ unwraps' = find_unwraps(lines)
    /\ upc' = "found"
    /\ UNCHANGED <<lines, line_num, is_test, svars, cvars, mvars, fvars>>

NextUnwraps == Classify \/ FindUnwraps

SpecUnwraps == InitUnwraps /\ [][NextUnwraps]_vars

\* is_test_code alone, on every line of a file
NextClassify == Classify

SpecClassify == InitUnwraps /\ [][NextClassify]_vars

\* ------------------------------------------------------------------ the scorer, applied to bounded bodies

Chunks ==
    {PATTERNS[k].text : k \in 1..Len(PATTERNS)}
        \cup {<<" ">>, <<"x">>, <<"&">>, <<"|">>, <<"=">>, <<">">>, <<"_">>}

MaxChunks == 2     \* a body is up to MaxChunks chunks, concatenated

\* the text of the scenario, and its body as function_pattern delimits it
ScenarioText == <<"f","n"," ","f","(",")"," ","{"," ","i","f"," ","a"," ","{"," ","1"," ","}"," ","e","l","s","e"," ","{"," ","2"," ","}"," ","}">>
ScenarioBody == FindIter(ScenarioText, 1)[1].body

Bodies == {Flatten(cs) : cs \in SeqsUpTo(Chunks, MaxChunks)} \cup {ScenarioBody}

InitScore ==
    /\ function_body \in Bodies
    /\ complexity = 0
    /\ spc = "call"
    /\ UnwrapsIdle
    /\ ComplexityIdle
    /\ MainIdle
    /\ FixIdle

\* the call count_complexity_indicators(function_body)
Score ==
    /\ spc = "call"
    /\ complexity' = count_complexity_indicators(function_body)
    /\ spc' = "scored"
    /\ UNCHANGED <<function_body, uvars, cvars, mvars, fvars>>

NextScore == Score

SpecScore == InitScore /\ [][NextScore]_vars

\* ------------------------------------------------------------------ input files of the complexity script

Q(n) == Repeat("?", n)

FnPlain  == <<"f","n"," ","p","l","a","i","n","(",")"," ","{"," ","x"," ","}","\n">>
FnTen    == <<"f","n"," ","t","e","n","(",")"," ","{"," ">> \o Q(9) \o <<" ","}","\n">>
FnEleven == <<"p","u","b"," ","f","n"," ","e","l","e","v","e","n","(",")"," ","{"," ">> \o Q(10) \o <<" ","}","\n">>
FnNest1  == <<"f","n"," ","n","e","s","t","1","(",")"," ","{"," ","i","f"," ","a"," ","{"," ">> \o Q(10) \o <<" ","}"," ","}","\n">>
FnNest2  == <<"f","n"," ","n","e","s","t","2","(",")"," ","{"," ","i","f"," ","a"," ","{"," ","i","f"," ","b"," ","{"," ">> \o Q(10) \o <<" ","}"," ","}"," ","}","\n">>
FnOpen   == <<"f","n"," ","o","p","e","n","(",")"," ","{"," ">> \o Q(11) \o <<"\n">>
FnTest   == <<"f","n"," ","t","e","s","t","_","t","(",")"," ","{"," ">> \o Q(11) \o <<" ","}","\n">>
FnMix    == <<"p","u","b"," ","a","s","y","n","c"," ","f","n"," ","m","i","x","(","a",":"," ","u","8",")"," ","-",">"," ","u","8"," ","{"," ","m","a","t","c","h"," ","a"," ","{"," ","1"," ","=",">"," ","b","?",","," ","_"," ","=",">"," ","c",".","u","n","w","r","a","p","(",")"," ","}"," ","|","|"," ","d"," ","&","&"," ","e",";"," ","r","e","t","u","r","n"," ","f",";"," ","}","\n">>

FnAttr   == <<"#","[","t","e","s","t","]","\n","f","n"," ","a","t","t","r","(",")"," ","{"," ">> \o Q(11) \o <<" ","}","\n">>
FnTwo    == <<"f","n"," ","t","w","o","(",")"," ","{"," ","i","f"," ","a"," ","{"," ">> \o Q(5) \o <<" ","}"," ","e","l","s","e"," ","{"," ">> \o Q(5) \o <<" ","}"," ","}","\n">>

FnTexts == {FnPlain, FnTen, FnEleven, FnNest1, FnNest2, FnOpen, FnTest, FnMix, FnAttr, FnTwo}

MaxFns == 2        \* a file of the analysis holds up to MaxFns declarations

AnalyzeContents == {Flatten(fs) : fs \in SeqsUpTo(FnTexts, MaxFns)}

\* files of the whole run: their findings score 22 | 11, 11 | 12, 12 | 13, 11 | none
RunA == <<"f","n"," ","a","1","(",")"," ","{"," ">> \o Q(21) \o <<" ","}","\n">>
RunB == <<"f","n"," ","b","1","(",")"," ","{"," ">> \o Q(10) \o <<" ","}","\n","f","n"," ","b","2","(",")"," ","{"," ","i","f"," ","x"," ","{"," ">> \o Q(9) \o <<" ","}"," ","}","\n">>
RunC == <<"f","n"," ","c","1","(",")"," ","{"," ">> \o Q(11) \o <<" ","}","\n","f","n"," ","c","2","(",")"," ","{"," ">> \o Q(11) \o <<" ","}","\n">>
RunD == <<"f","n"," ","d","1","(",")"," ","{"," ">> \o Q(12) \o <<" ","}","\n","f","n"," ","d","2","(",")"," ","{"," ">> \o Q(10) \o <<" ","}","\n">>
RunE == <<"f","n"," ","e","1","(",")"," ","{"," ">> \o Q(9) \o <<" ","}","\n">>

RunContents == {RunA, RunB, RunC, RunD, RunE}

MaxFiles == 4      \* the walk finds up to MaxFiles files

\* the path of the k-th file of the walk
Paths == <<"src/f1.rs", "src/f2.rs", "src/f3.rs", "src/f4.rs", "src/f5.rs", "src/f6.rs">>

\* ------------------------------------------------------------------ the complexity script as a state machine

InitComplexity ==
    /\ content = <<>>
    /\ scopes = <<>>
    /\ functions = <<>>
    /\ nfiles = 0
    /\ high_complexity_functions = <<>>
    /\ file_complexities = <<>>
    /\ cpc = "walk"
    /\ UnwrapsIdle
    /\ ScorerIdle
    /\ MainIdle
    /\ FixIdle

\* lines 59-63: one file of the walk, read, analysed and its findings collected
AnalyzeFile(text) ==
    /\ cpc = "walk"
    /\ content' = text
    /\ scopes' = FindIter(text, 1)
    /\ functions' = analyze_rust_file(text, Paths[nfiles + 1])
    /\ high_complexity_functions' =
           high_complexity_functions \o analyze_rust_file(text, Paths[nfiles + 1])
    /\ nfiles' = nfiles + 1
    /\ UNCHANGED <<file_complexities, cpc, uvars, svars, mvars, fvars>>

\* lines 29-30, 62: open() or f.read() raises for a file that cannot be read;
\* nothing catches the exception, the script ends before any report
AnalyzeUnreadable ==
    /\ cpc = "walk"
    /\ cpc' = "aborted"
    /\ UNCHANGED <<content, scopes, functions, nfiles, high_complexity_functions,
                   file_complexities, uvars, svars, mvars, fvars>>

\* lines 65-89: the walk is over; the list is sorted, grouped by file, the files ranked
Report ==
    /\ cpc = "walk"
    /\ high_complexity_functions' = SortDesc(high_complexity_functions, 2)
    /\ file_complexities' = FileComplexities(SortDesc(high_complexity_functions, 2))
    /\ cpc' = "reported"
    /\ UNCHANGED <<content, scopes, functions, nfiles, uvars, svars, mvars, fvars>>

\* analyze_rust_file alone, on one file
NextAnalyze == \E text \in AnalyzeContents : nfiles < 1 /\ AnalyzeFile(text)

SpecAnalyze == InitComplexity /\ [][NextAnalyze]_vars

\* the whole script
NextReport ==
    \/ \E text \in RunContents : nfiles < MaxFiles /\ AnalyzeFile(text)
    \/ nfiles < MaxFiles /\ AnalyzeUnreadable
    \/ Report

SpecReport == InitComplexity /\ [][NextReport]_vars

\* ------------------------------------------------------------------ main of the risky-call script

TopFiles == 10       \* line 62: [:10]
Snippets == 3        \* line 64: unwraps[:3]
SnippetWidth == 80   \* line 65: line[:80]

Take(seq, n) == SubSeq(seq, 1, Min(n, Len(seq)))

\* lines 25-42: the body of find_unwraps is under try / except: pass, so a file
\* that cannot be opened or decoded yields the empty list
find_unwraps_of(file) == IF file.readable THEN find_unwraps(file.lines) ELSE <<>>

\* line 62: sorted(production_unwraps.items(), key=lambda x: -len(x[1])), stable
RankedFiles(pu) ==
    SortDesc([k \in 1..Len(pu) |-> <<pu[k][1], pu[k][2], Len(pu[k][2])>>], 3)

\* lines 63-65: what is printed for one file
Printed(item) ==
    <<item[1], Len(item[2]),
      [k \in 1..Min(Snippets, Len(item[2])) |->
          <<item[2][k][1], Take(item[2][k][2], SnippetWidth)>>]>>

\* lines 61, 66: total += len(unwraps), once per file of the loop
RECURSIVE SumCounts(_)
SumCounts(items) ==
    IF items = <<>> THEN 0 ELSE Len(Head(items)[2]) + SumCounts(Tail(items))

\* the files of files_to_check
Readable(ls) == [readable |-> TRUE, lines |-> ls]
Unreadable == [readable |-> FALSE, lines |-> <<>>]
FOne  == Readable(<<LnFnPlain, LnUnwrap, LnClose>>)
FTwo  == Readable(<<LnUnwrap, LnTwice>>)
FNone == Readable(<<LnFnTest, LnUnwrap, Filler, LnClose, LnComment>>)
MainFiles == {FOne, FTwo, FNone, Unreadable}

MaxMainFiles == 11   \* files_to_check holds up to MaxMainFiles files
MaxVaried == 2       \* up to MaxVaried of them are other files than FOne

UnwrapPaths ==
    <<"src/u01.rs", "src/u02.rs", "src/u03.rs", "src/u04.rs", "src/u05.rs",
      "src/u06.rs", "src/u07.rs", "src/u08.rs", "src/u09.rs", "src/u10.rs",
      "src/u11.rs", "src/u12.rs", "src/u13.rs">>

\* the number of files scanned so far that were not FOne
Varied ==
    scanned - Cardinality({k \in 1..Len(production_unwraps) :
                              production_unwraps[k][2] = find_unwraps(FOne.lines)})

InitMain ==
    /\ scanned = 0
    /\ production_unwraps = <<>>
    /\ listing = <<>>
    /\ total = 0
    /\ mpc = "scan"
    /\ UnwrapsIdle
    /\ ScorerIdle
    /\ ComplexityIdle
    /\ FixIdle

\* lines 55-58: one turn of the loop over files_to_check
ScanFile(file) ==
    /\ mpc = "scan"
    /\ production_unwraps' =
           IF find_unwraps_of(file) # <<>>
           THEN Append(production_unwraps, <<UnwrapPaths[scanned + 1], find_unwraps_of(file)>>)
           ELSE production_unwraps
    /\ scanned' = scanned + 1
    /\ UNCHANGED <<listing, total, mpc, uvars, svars, cvars, fvars>>

\* lines 60-68: the report
PrintReport ==
    /\ mpc = "scan"
    /\ listing' = [k \in 1..Min(TopFiles, Len(production_unwraps)) |->
                      Printed(RankedFiles(production_unwraps)[k])]
    /\ total' = SumCounts(Take(RankedFiles(production_unwraps), TopFiles))
    /\ mpc' = "printed"
    /\ UNCHANGED <<scanned, production_unwraps, uvars, svars, cvars, fvars>>

NextMain ==
    \/ \E file \in MainFiles :
          /\ scanned < MaxMainFiles
          /\ file = FOne \/ Varied < MaxVaried
          /\ ScanFile(file)
    \/ PrintReport

SpecMain == InitMain /\ [][NextMain]_vars

\* ------------------------------------------------------------------ fix_transaction_indentation.py

IMPL_PREFIX == <<"i","m","p","l"," ">>
PUB_FN      == <<"p","u","b"," ","f","n"," ">>
INDENT      == <<" "," "," "," ">>
CLOSE_LINE  == <<"}","\n">>

\* lines 34-44: what is appended for a line inside an impl block; i is 0-based
FixedLine(ls, i) ==
    IF StartsWith(ls[i + 1], PUB_FN) THEN INDENT \o ls[i + 1]
    ELSE IF i > 0 /\ StartsWith(ls[i], PUB_FN)
         THEN (IF ~StartsWith(ls[i + 1], INDENT) THEN INDENT \o ls[i + 1] ELSE ls[i + 1])
         ELSE ls[i + 1]

\* lines 14-46: the loop over enumerate(lines), from index i on
RECURSIVE FixFrom(_, _, _, _)
FixFrom(ls, i, in_impl_block, impl_level) ==
    IF i >= Len(ls) THEN <<>>
    ELSE IF StartsWith(ls[i + 1], IMPL_PREFIX)
         THEN <<ls[i + 1]>> \o FixFrom(ls, i + 1, TRUE, 0)
    ELSE IF in_impl_block /\ ls[i + 1] = CLOSE_LINE /\ impl_level = 0
         THEN <<ls[i + 1]>> \o FixFrom(ls, i + 1, FALSE, impl_level)
    ELSE IF in_impl_block
         THEN <<FixedLine(ls, i)>>
                  \o FixFrom(ls, i + 1, TRUE, impl_level + BraceDelta(ls[i + 1]))
    ELSE <<ls[i + 1]>> \o FixFrom(ls, i + 1, FALSE, impl_level)

\* lines 6-50: the lines written for the lines read
fix_transaction_file(ls) == FixFrom(ls, 0, FALSE, 0)

\* lines of src/runtime/transaction.rs
TxImpl     == <<"i","m","p","l"," ","A"," ","{","\n">>
TxImplUnit == <<"i","m","p","l"," ","B"," ","{","}","\n">>
TxPubFn    == <<"p","u","b"," ","f","n"," ","f","(",")"," ","{","\n">>
TxPubFnIn  == <<" "," "," "," ","p","u","b"," ","f","n"," ","g","(",")"," ","{","\n">>
TxBody     == <<"x",";","\n">>
TxBodyIn   == <<" "," "," "," ","y",";","\n">>
TxLines == {TxImpl, TxImplUnit, TxPubFn, TxPubFnIn, TxBody, TxBodyIn, CLOSE_LINE}

MaxTxLines == 5    \* the file holds up to MaxTxLines lines
MaxRuns == 2       \* the script is run up to MaxRuns times on the file

InitFix ==
    /\ tx_file \in SeqsUpTo(TxLines, MaxTxLines)
    /\ tx_lines = <<>>
    /\ fixed_lines = <<>>
    /\ runs = 0
    /\ UnwrapsIdle
    /\ ScorerIdle
    /\ ComplexityIdle
    /\ MainIdle

\* lines 6-50: one run of the script: the file is read, fixed and written back
FixTransactionFile ==
    /\ runs < MaxRuns
    /\ tx_lines' = tx_file
    /\ fixed_lines' = fix_transaction_file(tx_file)
    /\ tx_file' = fix_transaction_file(tx_file)
    /\ runs' = runs + 1
    /\ UNCHANGED <<uvars, svars, cvars, mvars>>

NextFix == FixTransactionFile

SpecFix == InitFix /\ [][NextFix]_vars

\* ------------------------------------------------------------------ claims about the risky-call script

\* brace depth (opens minus closes) accumulated over lines m..j (0-based, inclusive)
RECURSIVE DepthFrom(_, _, _)
DepthFrom(ls, m, j) ==
    IF j < m THEN 0
    ELSE DepthFrom(ls, m, j - 1) + CountChar("{", ls[j + 1]) - CountChar("}", ls[j + 1])

\* 0-based line numbers carried by the findings
FoundLines == {unwraps[k][1] - 1 : k \in 1..Len(unwraps)}

\* the line is not a comment line: its trimmed text does not begin with //
NotCommentLine(line) == ~StartsWith(Strip(line), SLASHES2)

\* the first line at or after m where the depth counted from m is back at its
\* value before m; Len(ls) when there is none
DepthReturn(ls, m) ==
    LET Z == {e \in m..(Len(ls) - 1) : DepthFrom(ls, m, e) = 0}
    IN  IF Z = {} THEN Len(ls) ELSE SetMin(Z)

\* C1: when the backward window holds a marker, found at line M, is_test_code
\* returns True iff M <= L <= E, E the first line at or after M where the brace
\* depth counted from M returns to its value before M; otherwise it returns False.
ClaimC1 ==
    upc = "classified" =>
        LET W == WindowMarkers(lines, line_num)
        IN  IF W = {} THEN is_test = FALSE
            ELSE is_test = (SetMin(W) <= line_num /\ line_num <= DepthReturn(lines, SetMin(W)))

\* the scope a marker at line m annotates: opened by the first line at or after m
\* that holds an opening brace, closed by the first later-or-equal line where the
\* depth counted from m is back at 0
ScopeOpen(ls, m) ==
    LET O == {j \in m..(Len(ls) - 1) : CountChar("{", ls[j + 1]) > 0}
    IN  IF O = {} THEN Len(ls) ELSE SetMin(O)
ScopeClose(ls, m) ==
    LET Z == {e \in ScopeOpen(ls, m)..(Len(ls) - 1) : DepthFrom(ls, m, e) = 0}
    IN  IF Z = {} THEN Len(ls) ELSE SetMin(Z)

\* line l is a non-comment '.unwrap()' line 5 lines after a marker line whose scope
\* has opened by l and closes on a later line of the file
FiveAfterMarker(ls, l) ==
    /\ l - 5 >= 0
    /\ l < Len(ls)
    /\ HasMarker(ls[l - 5 + 1])
    /\ Contains(UNWRAP, ls[l + 1])
    /\ NotCommentLine(ls[l + 1])
    /\ ScopeOpen(ls, l - 5) <= l
    /\ l < ScopeClose(ls, l - 5)
    /\ ScopeClose(ls, l - 5) < Len(ls)

\* C2: a non-comment '.unwrap()' line 5 lines after a recognised marker line and
\* before the line closing that marker's scope is classified Test and is absent
\* from the findings of find_unwraps.
ClaimC2 ==
    /\ upc = "classified" /\ FiveAfterMarker(lines, line_num) => is_test = TRUE
    /\ upc = "found" =>
          \A l \in 0..(Len(lines) - 1) : FiveAfterMarker(lines, l) => l \notin FoundLines

\* none of the up to 20 lines before l holds a marker
NoMarkerBefore(ls, l) ==
    \A d \in 1..20 : l - d >= 0 => ~HasMarker(ls[l - d + 1])

\* C3: with no marker in the up to 20 lines before L, is_test_code returns False
\* whatever markers stand elsewhere, and a '.unwrap()' line at L that is not a
\* comment line (its trimmed text does not begin with //) is emitted.
TheoremC3 ==
    /\ upc = "classified" /\ NoMarkerBefore(lines, line_num) => is_test = FALSE
    /\ upc = "found" =>
          \A l \in 0..(Len(lines) - 1) :
              /\ NoMarkerBefore(lines, l)
              /\ Contains(UNWRAP, lines[l + 1])
              /\ NotCommentLine(lines[l + 1])
              => \E k \in 1..Len(unwraps) : unwraps[k] = <<l + 1, Strip(lines[l + 1])>>

\* a finding for a line that has a marker opening a still-open scope more than
\* 20 lines above it, and a marker below it
WitnessC3 ==
    /\ upc = "found"
    /\ \E l \in FoundLines :
          /\ NoMarkerBefore(lines, l)
          /\ \E m \in 0..(l - 21) :
                /\ HasMarker(lines[m + 1])
                /\ \A j \in m..l : DepthFrom(lines, m, j) > 0
          /\ \E m \in (l + 1)..(Len(lines) - 1) : HasMarker(lines[m + 1])

\* some '.unwrap()' of the line has no // before it on the line
UncommentedUnwrap(line) ==
    \E p \in 1..Len(line) :
        /\ MatchAt(UNWRAP, line, p)
        /\ \A q \in 1..(p - 1) : ~MatchAt(SLASHES2, line, q)

\* C4: a line classified Production yields a finding iff it holds a '.unwrap()'
\* not preceded by // on the same line.
ClaimC4 ==
    upc = "found" =>
        \A l \in 0..(Len(lines) - 1) :
            ~is_test_code(lines, l) =>
                (l \in FoundLines <=> UncommentedUnwrap(lines[l + 1]))

\* ------------------------------------------------------------------ claims about the complexity script

\* the indicators, as the claim lists them: keywords (whole words) and symbols
Keywords ==
    {<<"i","f">>, <<"e","l","s","e">>, <<"f","o","r">>, <<"w","h","i","l","e">>, <<"l","o","o","p">>, <<"m","a","t","c","h">>, <<"r","e","t","u","r","n">>, <<"b","r","e","a","k">>, <<"c","o","n","t","i","n","u","e">>}
Symbols == {<<"=",">">>, <<"?">>, <<".","u","n","w","r","a","p","(">>, <<".","e","x","p","e","c","t","(">>, <<"&","&">>, <<"|","|">>}

\* the positions of s where the indicator w occurs
Occurrences(w, s) ==
    {p \in 1..Len(s) :
        /\ MatchAt(w, s, p)
        /\ w \in Keywords =>
             /\ (p = 1 \/ ~IsWord(s[p - 1]))
             /\ (p + Len(w) > Len(s) \/ ~IsWord(s[p + Len(w)]))}

\* the largest number of occurrences of w in s no two of which overlap
NonOverlapping(w, s) ==
    LET Fits(P) == \A a \in P : \A b \in P : a < b => b - a >= Len(w)
        sizes == {Cardinality(P) : P \in {X \in SUBSET Occurrences(w, s) : Fits(X)}}
    IN  CHOOSE n \in sizes : \A m \in sizes : m <= n

RECURSIVE SumOver(_, _)
SumOver(S, s) ==
    IF S = {} THEN 0
    ELSE LET w == CHOOSE x \in S : TRUE
         IN  NonOverlapping(w, s) + SumOver(S \ {w}, s)

\* C5: count_complexity_indicators returns 1 plus the number of non-overlapping
\* occurrences of the fifteen indicators in the body, so at least 1, exactly 1
\* without indicator, and 3 for the body of 'fn f() { if a { 1 } else { 2 } }'.
TheoremC5 ==
    spc = "scored" =>
        /\ complexity = 1 + SumOver(Keywords \cup Symbols, function_body)
        /\ complexity >= 1
        /\ (\A w \in Keywords \cup Symbols : Occurrences(w, function_body) = {}) => complexity = 1
        /\ function_body = ScenarioBody => complexity = 3

\* a scored body in which occurrences of one indicator overlap
WitnessC5 ==
    /\ spc = "scored"
    /\ complexity > 1
    /\ \E w \in Symbols :
          Cardinality(Occurrences(w, function_body)) > NonOverlapping(w, function_body)

\* C6: analyze_rust_file reports a function only if its score is strictly above
\* 10: every reported tuple carries a score >= 11, a function scoring 10 is absent.
TheoremC6 ==
    /\ \A k \in 1..Len(functions) : functions[k][2] >= 11
    /\ \A j \in 1..Len(scopes) :
          count_complexity_indicators(scopes[j].body) = 10 =>
              \A k \in 1..Len(functions) : functions[k][1] # scopes[j].name

\* a file with a function scoring 10, left out, and one scoring 11, reported
WitnessC6 ==
    /\ nfiles = 1
    /\ \E j \in 1..Len(scopes) : count_complexity_indicators(scopes[j].body) = 10
    /\ \E k \in 1..Len(functions) : functions[k][2] = 11

\* a declaration signature begins at position q of s
SigAt(s, q) ==
    /\ MatchAt(FN_KEYWORD, s, q)
    /\ q + 2 <= Len(s) /\ IsSpace(s[q + 2])
    /\ \E r \in (q + 3)..Len(s) :
          IsWord(s[r]) /\ \A t \in (q + 2)..(r - 1) : IsSpace(s[t])

DeclName(s, q) ==
    LET r == SetMin({t \in (q + 2)..Len(s) : ~IsSpace(s[t])})
        e == SetMin({t \in r..(Len(s) + 1) : t > Len(s) \/ ~IsWord(s[t])})
    IN  SubSeq(s, r, e - 1)

\* the opening brace of the declaration at q, 0 when there is none
OpenOf(s, q) ==
    LET B == {t \in q..Len(s) : s[t] = "{"}
    IN  IF B = {} THEN 0 ELSE SetMin(B)

\* nesting depth of s[a..b], counted from 0
CharDepth(s, a, b) ==
    Cardinality({t \in a..b : s[t] = "{"}) - Cardinality({t \in a..b : s[t] = "}"})

\* the first closing brace that brings the depth back to the level before the
\* opening brace of the declaration at q, 0 when there is none
CloseOf(s, q) ==
    LET ob == OpenOf(s, q)
        Z == {e \in (ob + 1)..Len(s) : CharDepth(s, ob, e) = 0}
    IN  IF ob = 0 \/ Z = {} THEN 0 ELSE SetMin(Z)

Balanced(s, q) == SigAt(s, q) /\ CloseOf(s, q) # 0
Unterminated(s, q) == SigAt(s, q) /\ OpenOf(s, q) # 0 /\ CloseOf(s, q) = 0

\* the declaration at q does not lie within an earlier balanced declaration
TopLevel(s, q) == \A r \in 1..(q - 1) : Balanced(s, r) => CloseOf(s, r) < q

\* the text between the opening brace of the declaration at q and its closing brace
WholeBody(s, q) == SubSeq(s, OpenOf(s, q) + 1, CloseOf(s, q) - 1)

\* the analysis has delimited the declaration at q by its balancing brace
ScoredWhole(s, q) ==
    \E j \in 1..Len(scopes) :
        scopes[j] = [name |-> DeclName(s, q), body |-> WholeBody(s, q)]

\* C7: for every function declaration whose braces balance, the scope ends at the
\* first closing brace that brings the depth back to its level before the scope,
\* at any depth of nesting, and the whole text between the braces is scored.
ClaimC7 ==
    nfiles = 1 =>
        \A q \in 1..Len(content) :
            Balanced(content, q) /\ TopLevel(content, q) => ScoredWhole(content, q)

\* C8: a signature whose opening brace is never re-balanced contributes no
\* finding, and every other function of the file whose braces balance is still
\* scored and, above the threshold, reported.
ClaimC8 ==
    nfiles = 1 =>
        \A u \in 1..Len(content) :
            Unterminated(content, u) =>
                /\ \A k \in 1..Len(functions) : functions[k][1] # DeclName(content, u)
                /\ \A q \in 1..Len(content) :
                      /\ Balanced(content, q)
                      /\ TopLevel(content, q)
                      /\ ~StartsWith(DeclName(content, q), TEST_PREFIX)
                      => /\ ScoredWhole(content, q)
                         /\ count_complexity_indicators(WholeBody(content, q)) > 10 =>
                              \E k \in 1..Len(functions) :
                                  /\ functions[k][1] = DeclName(content, q)
                                  /\ functions[k][2] =
                                         count_complexity_indicators(WholeBody(content, q))

\* after is before reordered: by non-increasing score, equal scores in the order of before
RankedStable(before, after) ==
    /\ Len(after) = Len(before)
    /\ \A i \in 1..(Len(after) - 1) : after[i][2] >= after[i + 1][2]
    /\ \A i \in 1..Len(before) :
          SelectSeq(after, LAMBDA x : x[2] = before[i][2])
              = SelectSeq(before, LAMBDA x : x[2] = before[i][2])

\* C9: the ranked list is a permutation of the collected findings, ordered by
\* non-increasing score, findings of equal score in the order of encounter.
TheoremC9 ==
    [][cpc = "walk" /\ cpc' = "reported" =>
          RankedStable(high_complexity_functions, high_complexity_functions')]_vars

PathIndex(f) == CHOOSE k \in 1..Len(Paths) : Paths[k] = f

\* a ranked list with equal scores from different files, a higher score above
\* them, and a finding of a later file ranked above one of an earlier file
WitnessC9 ==
    /\ cpc = "reported"
    /\ \E i \in 1..Len(high_complexity_functions), j \in 1..Len(high_complexity_functions) :
          /\ i < j
          /\ high_complexity_functions[i][2] = high_complexity_functions[j][2]
          /\ high_complexity_functions[i][3] # high_complexity_functions[j][3]
          /\ high_complexity_functions[1][2] > high_complexity_functions[i][2]
    /\ \E i \in 1..Len(high_complexity_functions), j \in 1..Len(high_complexity_functions) :
          /\ i < j
          /\ PathIndex(high_complexity_functions[i][3]) > PathIndex(high_complexity_functions[j][3])

FirstPos(f) ==
    SetMin({k \in 1..Len(high_complexity_functions) : high_complexity_functions[k][3] = f})

Demark(line) == [k \in 1..Len(line) |-> IF line[k] = "t" THEN "x" ELSE line[k]]

\* the file with the marker text taken off every line outside l - 20 .. l - 1
DemarkOutside(ls, l) ==
    [k \in 1..Len(ls) |->
        IF l - 20 <= k - 1 /\ k - 1 <= l - 1 THEN ls[k] ELSE Demark(ls[k])]

\* the 0-based lines l - d, 1 <= d <= 20, that hold a marker
MarkersWithin20(ls, l) ==
    {l - d : d \in {e \in 1..20 : l - e >= 0 /\ HasMarker(ls[l - e + 1])}}

\* the depths at the end of the lines j..l (0-based), d being the depth before j
RECURSIVE DepthsFrom(_, _, _, _)
DepthsFrom(ls, j, l, d) ==
    IF j > l THEN <<>>
    ELSE <<d + BraceDelta(ls[j + 1])>> \o DepthsFrom(ls, j + 1, l, d + BraceDelta(ls[j + 1]))

\* C15: the window is exactly the 20 lines before L: markers 21 or more lines
\* before L, on L or after L never influence the result, and a marker on line
\* L - d, 1 <= d <= 20, is considered.
TheoremC15 ==
    upc = "classified" =>
        /\ is_test = is_test_code(DemarkOutside(lines, line_num), line_num)
        /\ MarkersWithin20(lines, line_num) = {} => is_test = FALSE
        /\ \A m \in MarkersWithin20(lines, line_num) :
              /\ \A k \in MarkersWithin20(lines, line_num) : m <= k
              /\ LET ds == DepthsFrom(lines, m, line_num, 0)
                 IN  \A j \in 1..Len(ds) : ds[j] > 0
              => is_test = TRUE

\* a marker exactly 20 lines above L decides the result, next to markers on L
\* or below L
WitnessC15 ==
    /\ upc = "classified"
    /\ is_test = TRUE
    /\ MarkersWithin20(lines, line_num) = {line_num - 20}
    /\ \E k \in line_num..(Len(lines) - 1) : HasMarker(lines[k + 1])

\* C17: every finding is (n, text), n a valid 1-based line number whose line holds
\* '.unwrap()', is no comment line and is not test code, text the trimmed line;
\* the findings are in strictly increasing order of n.
TheoremC17 ==
    upc = "found" =>
        /\ \A k \in 1..Len(unwraps) :
              LET n == unwraps[k][1]
              IN  /\ 1 <= n /\ n <= Len(lines)
                  /\ Contains(UNWRAP, lines[n])
                  /\ ~StartsWith(Strip(lines[n]), SLASHES2)
                  /\ ~is_test_code(lines, n - 1)
                  /\ unwraps[k][2] = Strip(lines[n])
        /\ \A k \in 1..(Len(unwraps) - 1) : unwraps[k][1] < unwraps[k + 1][1]

\* two findings, one of them for a line that holds '.unwrap()' twice
WitnessC17 ==
    /\ upc = "found"
    /\ Len(unwraps) >= 2
    /\ \E k \in 1..Len(unwraps) :
          Cardinality({p \in 1..Len(lines[unwraps[k][1]]) :
                          MatchAt(UNWRAP, lines[unwraps[k][1]], p)}) = 2

\* C18: with M the earliest marker line of the window: if the depth counted from
\* M is strictly positive on every line from M through L, the result is True; if
\* it is 0 at the end of a line j, M <= j < L, or <= 0 at the end of L, False.
TheoremC18 ==
    upc = "classified" /\ MarkersWithin20(lines, line_num) # {} =>
        LET M == SetMin(MarkersWithin20(lines, line_num))
            ds == DepthsFrom(lines, M, line_num, 0)
        IN  /\ (\A j \in 1..Len(ds) : ds[j] > 0) => is_test = TRUE
            /\ (\E j \in 1..(Len(ds) - 1) : ds[j] = 0) => is_test = FALSE
            /\ ds[Len(ds)] <= 0 => is_test = FALSE

\* the depth is below 0 at L without having been 0 on an earlier line
WitnessC18 ==
    /\ upc = "classified"
    /\ MarkersWithin20(lines, line_num) # {}
    /\ LET M == SetMin(MarkersWithin20(lines, line_num))
       IN  /\ DepthFrom(lines, M, line_num) < 0
           /\ \A j \in M..(line_num - 1) : DepthFrom(lines, M, j) > 0
    /\ is_test = FALSE

\* the lines of the window behind its earliest marker m, rewritten by F
RewriteLater(ls, m, l, F(_)) ==
    [k \in 1..Len(ls) |-> IF m < k - 1 /\ k - 1 <= l - 1 THEN F(ls[k]) ELSE ls[k]]

AddAttr(line) == TEST_ATTR \o line
ReplaceByCfg(line) == CFG_TEST \o Demark(line)

\* C19: with several markers in the window the earliest alone decides: removing,
\* adding or replacing marker text on later lines of the window, braces
\* unchanged, never changes the result.
TheoremC19 ==
    upc = "classified" /\ MarkersWithin20(lines, line_num) # {} =>
        LET M == SetMin(MarkersWithin20(lines, line_num))
        IN  /\ is_test = is_test_code(RewriteLater(lines, M, line_num, Demark), line_num)
            /\ is_test = is_test_code(RewriteLater(lines, M, line_num, AddAttr), line_num)
            /\ is_test = is_test_code(RewriteLater(lines, M, line_num, ReplaceByCfg), line_num)

\* two markers in the window; the later one alone would give the other result
WitnessC19 ==
    /\ upc = "classified"
    /\ Cardinality(MarkersWithin20(lines, line_num)) >= 2
    /\ \E m \in MarkersWithin20(lines, line_num) :
          ScanBraces(lines, m, line_num, 0) # is_test
\* ------------------------------------------------------------------ further claims about the complexity script

\* C16: no function whose name starts with 'test_' is in the list returned by
\* analyze_rust_file, whatever its score; a matched function of another name
\* scoring above the threshold is in the list, '#[test]' attribute or not.
TheoremC16 ==
    nfiles = 1 =>
        /\ \A k \in 1..Len(functions) : ~StartsWith(functions[k][1], TEST_PREFIX)
        /\ \A j \in 1..Len(scopes) :
              /\ ~StartsWith(scopes[j].name, TEST_PREFIX)
              /\ count_complexity_indicators(scopes[j].body) > Threshold
              => \E k \in 1..Len(functions) :
                    functions[k] = <<scopes[j].name,
                                     count_complexity_indicators(scopes[j].body),
                                     Paths[1]>>

\* a test_ function above the threshold is left out, a function under '#[test]'
\* is reported
WitnessC16 ==
    /\ nfiles = 1
    /\ \E j \in 1..Len(scopes) :
          /\ StartsWith(scopes[j].name, TEST_PREFIX)
          /\ count_complexity_indicators(scopes[j].body) > Threshold
    /\ Contains(TEST_ATTR, content)
    /\ \E k \in 1..Len(functions) : functions[k][1] = <<"a","t","t","r">>
\* the positions of the findings of file f in the ranked list
FindingsOf(f) ==
    {k \in 1..Len(high_complexity_functions) : high_complexity_functions[k][3] = f}

\* the scores of the findings at the positions I, added up
RECURSIVE ScoreOver(_)
ScoreOver(I) ==
    IF I = {} THEN 0
    ELSE LET k == CHOOSE x \in I : TRUE
         IN  high_complexity_functions[k][2] + ScoreOver(I \ {k})

\* item c of the rows 1..n of the per-file list, added up
RECURSIVE ColumnSum(_, _)
ColumnSum(c, n) == IF n = 0 THEN 0 ELSE file_complexities[n][c] + ColumnSum(c, n - 1)

\* C14: in the per-file view the total of a file is the sum of the scores of its
\* findings and its count their number; the counts of all files add up to the
\* number of findings, the totals to the sum of all scores.
TheoremC14 ==
    cpc = "reported" =>
        /\ \A i \in 1..Len(file_complexities) :
              /\ FindingsOf(file_complexities[i][1]) # {}
              /\ file_complexities[i][2] = ScoreOver(FindingsOf(file_complexities[i][1]))
              /\ file_complexities[i][3] = Cardinality(FindingsOf(file_complexities[i][1]))
        /\ ColumnSum(3, Len(file_complexities)) = Len(high_complexity_functions)
        /\ ColumnSum(2, Len(file_complexities))
              = ScoreOver(1..Len(high_complexity_functions))

\* a report over several files, one of them with two findings of different score
WitnessC14 ==
    /\ cpc = "reported"
    /\ Len(file_complexities) >= 3
    /\ \E i \in 1..Len(file_complexities) :
          /\ file_complexities[i][3] = 2
          /\ \E k \in FindingsOf(file_complexities[i][1]) :
                high_complexity_functions[k][2] * 2 # file_complexities[i][2]
\* ------------------------------------------------------------------ claims about the reports

\* the findings of all files that were scanned, counted
RECURSIVE AllFindings(_)
AllFindings(n) ==
    IF n = 0 THEN 0 ELSE Len(production_unwraps[n][2]) + AllFindings(n - 1)

\* C11: 'Total production unwraps' equals the number of findings returned by
\* find_unwraps over all analysed files, for any number of files with findings.
ClaimC11 ==
    mpc = "printed" => total = AllFindings(Len(production_unwraps))

\* C12: a file that cannot be read does not abort the run, in neither analysis.
ClaimC12 == cpc # "aborted" /\ mpc # "aborted"
\* ------------------------------------------------------------------ claims about fix_transaction_file

\* the block opened by the 'impl ' line m (0-based) is closed at the end of line e
ImplClosedAt(ls, m, e) ==
    /\ \E j \in m..e : CountChar("{", ls[j + 1]) > 0
    /\ DepthFrom(ls, m, e) <= 0

\* line k lies inside an impl block: behind an 'impl ' line whose braces are
\* not balanced before the end of line k; the 'impl ' line and the line of
\* the closing brace are not inside
InsideImpl(ls, k) ==
    /\ ~StartsWith(ls[k + 1], IMPL_PREFIX)
    /\ \E m \in 0..(k - 1) :
          /\ StartsWith(ls[m + 1], IMPL_PREFIX)
          /\ \A e \in m..k : ~ImplClosedAt(ls, m, e)

SameLength == Len(fixed_lines) = Len(tx_lines)

OnlyIndented ==
    \A k \in 1..Min(Len(fixed_lines), Len(tx_lines)) :
        fixed_lines[k] = tx_lines[k] \/ fixed_lines[k] = INDENT \o tx_lines[k]

OutsideUnchanged ==
    \A k \in 1..Min(Len(fixed_lines), Len(tx_lines)) :
        ~InsideImpl(tx_lines, k - 1) => fixed_lines[k] = tx_lines[k]

SecondRunNoChange == runs >= 2 => fixed_lines = tx_lines

\* C20: the output has the lines of the input, in order, each unchanged or
\* prefixed with four spaces; every line outside an impl block, the 'impl '
\* line and the closing line included, is unchanged; a second run on the
\* output changes nothing.
ClaimC20 ==
    runs >= 1 => SameLength /\ OnlyIndented /\ OutsideUnchanged /\ SecondRunNoChange
====
